---- MODULE Spec2Model ----
(***************************************************************************)
(* Model of the schema-migration engine, scripts/migrate.js                *)
(* (class MigrationManager and main).                                      *)
(*                                                                         *)
(* One CLI process runs at a time (Spec); two processes running `up` at    *)
(* once, each with its own database session, are SpecConcurrent.  Every    *)
(* `await this.client.rpc(...)` is                                         *)
(* one step: the statement reaches the database session and either takes   *)
(* effect ("ok"), fails with the error returned in the result object        *)
(* ("err"), or fails with the promise rejected ("throw").  The code decides *)
(* what it does with each of the three.  The client created by createClient *)
(* resolves a failed call with { error } (rejects = FALSE); a client that    *)
(* rejects the promise instead is the other value of rejects.               *)
(*                                                                         *)
(* The database is a session with PostgreSQL transaction rules:            *)
(*   - BEGIN opens a transaction; when BEGIN failed the statements that     *)
(*     follow run in autocommit mode;                                       *)
(*   - a statement that fails inside a transaction aborts it, and COMMIT    *)
(*     of an aborted transaction rolls it back;                             *)
(*   - one exec_sql call is atomic: a failed migration body leaves nothing; *)
(*   - COMMIT and ROLLBACK always end the transaction.                      *)
(***************************************************************************)
EXTENDS Integers, Sequences, FiniteSets

\* ---------------------------------------------------------------- bounds
MaxTime  == 2      \* wall-clock seconds create() can observe: 1..MaxTime
MaxFiles == 2      \* create() is offered while the directory holds fewer files
MaxClock == 3      \* up() is offered while NOW() stays within 1..MaxClock+1
MaxSteps == 2      \* down <steps> is offered for steps in 1..MaxSteps

VARIABLES
    rejects,      \* whether the client rejects the promise of a failed rpc call
    dir,          \* the files of supabase/migrations
    dirExists,    \* whether the directory supabase/migrations exists
    time,         \* the wall clock, in seconds
    tableExists,  \* whether schema_migrations exists
    ledger,       \* committed rows of schema_migrations
    schema,       \* names of the migrations whose schema change is committed
    tx,           \* the session's transaction: "none", "open", "aborted"
    txLedger,     \* the open transaction's view of schema_migrations
    txSchema,     \* the open transaction's view of the schema
    now,          \* the database's NOW()
    pc,           \* where the running command is
    op,           \* the command: "none", "init", "up", "down", "status", "create"
    arg,          \* its argument (steps of down, name of create)
    plan,         \* pendingMigrations of runPending / migrationsToRollback of rollback
    idx,          \* the position of the for-loop in plan
    cur,          \* outcomes of the rpc calls of the current apply / revert
    stmtFailed,   \* whether a statement of an apply / revert of this command has failed
    snap,         \* committed ledger and schema when the current apply / revert began
    start,        \* committed ledger and schema when the command began
    reads,        \* outcomes of the command's ledger reads, in order
    ret,          \* the command's result: "none", "true", "false", "threw"
    report,       \* what status() printed
    created,      \* what create() wrote
    prev,         \* "up_ok" when the previous command was an up that reported success
    peers,        \* the processes that run `up` concurrently, each with its session
    bodyLog       \* names of the migrations whose SQL a concurrent process executed

dbVars  == <<tableExists, ledger, schema, tx, txLedger, txSchema, now>>
envVars  == <<rejects, dir, dirExists, time, peers, bodyLog>>
runVars == <<pc, op, arg, plan, idx, cur, stmtFailed, snap, start, reads, ret, report, created, prev>>
vars    == <<rejects, dir, dirExists, time, tableExists, ledger, schema, tx, txLedger, txSchema, now,
             pc, op, arg, plan, idx, cur, stmtFailed, snap, start, reads, ret, report, created, prev,
             peers, bodyLog>>

\* ------------------------------------------------------------- filenames
\* A file of the directory: <prefix>_<slug>.<ext>, prefix a digit string.
File(p, s) == [prefix |-> p, slug |-> s, ext |-> "sql"]

\* new Date().toISOString().replace(/[-:T.]/g, '').slice(0, 14): the fixed-width,
\* zero-padded digit string of the current second (two digits wide here).
Timestamp(t) == <<t \div 10, t % 10>>

\* The UTF-16 code units Array.prototype.sort() compares.
SlugCode(s) == CASE s = "a" -> 97 [] s = "b" -> 98 [] OTHER -> 122

ExtCode(e) == IF e = "sql" THEN <<46, 115, 113, 108>> ELSE <<46, 116, 120, 116>>

Chars(f) == [i \in 1..Len(f.prefix) |-> 48 + f.prefix[i]]
            \o <<95, SlugCode(f.slug)>> \o ExtCode(f.ext)

RECURSIVE SeqLess(_, _)
SeqLess(a, b) ==
    IF a = <<>> THEN b # <<>>
    ELSE IF b = <<>> THEN FALSE
    ELSE IF Head(a) # Head(b) THEN Head(a) < Head(b)
    ELSE SeqLess(Tail(a), Tail(b))

LexLess(f, g) == SeqLess(Chars(f), Chars(g))

\* readdirSync(...).sort(): ascending by code units.
RECURSIVE SortFiles(_)
SortFiles(S) ==
    IF S = {} THEN <<>>
    ELSE LET m == CHOOSE x \in S : \A y \in S \ {x} : LexLess(x, y)
         IN  <<m>> \o SortFiles(S \ {m})

\* parseInt(file.split('_')[0]); NaN is -1.
RECURSIVE ParseInt(_)
ParseInt(d) ==
    IF d = <<>> THEN -1
    ELSE IF Len(d) = 1 THEN d[1]
    ELSE 10 * ParseInt(SubSeq(d, 1, Len(d) - 1)) + d[Len(d)]

\* file.replace('.sql', '')
Name(f) == <<f.prefix, f.slug>>

Migration(f) == [filename |-> f, name |-> Name(f), timestamp |-> ParseInt(f.prefix)]

getMigrations ==
    LET files == SortFiles({f \in dir : f.ext = "sql"})
    IN  [i \in 1..Len(files) |-> Migration(files[i])]

\* ------------------------------------------------------------ sequences
RECURSIVE SelectNotIn(_, _)
SelectNotIn(s, names) ==
    IF s = <<>> THEN <<>>
    ELSE IF Head(s).name \in names THEN SelectNotIn(Tail(s), names)
    ELSE <<Head(s)>> \o SelectNotIn(Tail(s), names)

Reverse(s) == [i \in 1..Len(s) |-> s[Len(s) + 1 - i]]

Max(a, b) == IF a > b THEN a ELSE b
Min(a, b) == IF a < b THEN a ELSE b

\* Array.prototype.slice(begin): a negative begin counts from the end.
Slice(s, begin) ==
    LET from == IF begin < 0 THEN Max(Len(s) + begin, 0) ELSE Min(begin, Len(s))
    IN  SubSeq(s, from + 1, Len(s))

Range(s) == {s[i] : i \in 1..Len(s)}
Names(rows) == {r.name : r \in rows}

\* .order('applied_at', { ascending: false })
RECURSIVE OrderByAppliedAtDesc(_)
OrderByAppliedAtDesc(rows) ==
    IF rows = {} THEN <<>>
    ELSE LET m == CHOOSE x \in rows : \A y \in rows : x.applied_at >= y.applied_at
         IN  <<m>> \o OrderByAppliedAtDesc(rows \ {m})

\* .order('applied_at', { ascending: true })
RECURSIVE OrderByAppliedAt(_)
OrderByAppliedAt(rows) ==
    IF rows = {} THEN <<>>
    ELSE LET m == CHOOSE x \in rows : \A y \in rows : x.applied_at <= y.applied_at
         IN  <<m>> \o OrderByAppliedAt(rows \ {m})

\* ------------------------------------------------------------- database
Outcomes == IF rejects THEN {"ok", "err", "throw"} ELSE {"ok", "err"}
Failed(o) == o # "ok"

\* What the session sees.
VisLedger == IF tx = "none" THEN ledger ELSE txLedger

EndTx == /\ tx' = "none"
         /\ txLedger' = {}
         /\ txSchema' = {}

\* A failed statement aborts the transaction it ran in.
StmtFails == /\ tx' = IF tx = "open" THEN "aborted" ELSE tx
             /\ UNCHANGED <<tableExists, ledger, schema, txLedger, txSchema, now>>

ExecBegin(o) ==
    IF o = "ok" /\ tx = "none"
    THEN /\ tx' = "open"
         /\ txLedger' = ledger
         /\ txSchema' = schema
         /\ UNCHANGED <<tableExists, ledger, schema, now>>
    ELSE UNCHANGED dbVars

\* The migration's SQL body: an opaque unit that either takes effect or does not.
ExecBody(m, o) ==
    IF o = "ok"
    THEN /\ tx # "aborted"
         /\ IF tx = "open"
            THEN /\ txSchema' = txSchema \cup {m.name}
                 /\ UNCHANGED schema
            ELSE /\ schema' = schema \cup {m.name}
                 /\ UNCHANGED txSchema
         /\ UNCHANGED <<tableExists, ledger, tx, txLedger, now>>
    ELSE StmtFails

\* The INSERT against a table whose name column is not UNIQUE
ExecInsertNoUnique(m, o) ==
    IF o = "ok"
    THEN /\ tableExists
         /\ tx # "aborted"
         /\ LET row == [name |-> m.name, filename |-> m.filename, applied_at |-> now]
            IN  IF tx = "open"
                THEN /\ txLedger' = txLedger \cup {row}
                     /\ UNCHANGED ledger
                ELSE /\ ledger' = ledger \cup {row}
                     /\ UNCHANGED txLedger
         /\ now' = now + 1
         /\ UNCHANGED <<tableExists, schema, tx, txSchema>>
    ELSE StmtFails

\* INSERT INTO schema_migrations (name, filename, applied_at) VALUES (.., .., NOW());
\* name is UNIQUE (init, line 290).
ExecInsert(m, o) ==
    IF o = "ok"
    THEN /\ tableExists
         /\ tx # "aborted"
         /\ m.name \notin Names(VisLedger)
         /\ LET row == [name |-> m.name, filename |-> m.filename, applied_at |-> now]
            IN  IF tx = "open"
                THEN /\ txLedger' = txLedger \cup {row}
                     /\ UNCHANGED ledger
                ELSE /\ ledger' = ledger \cup {row}
                     /\ UNCHANGED txLedger
         /\ now' = now + 1
         /\ UNCHANGED <<tableExists, schema, tx, txSchema>>
    ELSE StmtFails

\* DELETE FROM schema_migrations; without the WHERE clause
ExecDeleteAll(name, o) ==
    IF o = "ok"
    THEN /\ tableExists
         /\ tx # "aborted"
         /\ IF tx = "open"
            THEN /\ txLedger' = {}
                 /\ UNCHANGED ledger
            ELSE /\ ledger' = {}
                 /\ UNCHANGED txLedger
         /\ UNCHANGED <<tableExists, schema, tx, txSchema, now>>
    ELSE StmtFails

\* DELETE FROM schema_migrations WHERE name = '..';
ExecDelete(name, o) ==
    IF o = "ok"
    THEN /\ tableExists
         /\ tx # "aborted"
         /\ IF tx = "open"
            THEN /\ txLedger' = {r \in txLedger : r.name # name}
                 /\ UNCHANGED ledger
            ELSE /\ ledger' = {r \in ledger : r.name # name}
                 /\ UNCHANGED txLedger
         /\ UNCHANGED <<tableExists, schema, tx, txSchema, now>>
    ELSE StmtFails

ExecCommit(o) ==
    /\ IF o = "ok" /\ tx = "open"
       THEN /\ ledger' = txLedger
            /\ schema' = txSchema
       ELSE UNCHANGED <<ledger, schema>>
    /\ EndTx
    /\ UNCHANGED <<tableExists, now>>

ExecRollback(o) ==
    /\ EndTx
    /\ UNCHANGED <<tableExists, ledger, schema, now>>

\* --------------------------------------------------------------- engine
\* What is remembered of the current apply / revert: whether its BEGIN, its
\* statement (migration body or DELETE) and its ledger INSERT were issued and
\* failed, and what it returned.
NoCur == [begin |-> "-", body |-> "-", insert |-> "-", res |-> "-"]
Seen(o) == IF o = "ok" THEN "ok" ELSE "failed"
NoSnap == [ledger |-> {}, schema |-> {}]
NoReport == [total |-> -1, applied |-> -1, pending |-> -1, percent |-> "-", rows |-> <<>>]
NoCreated == [filename |-> "-", existed |-> FALSE]

\* The outcomes of the ledger SELECT: the rows, error 42P01 (the table is
\* missing), another error in the result, or a rejected promise.  While the
\* table is missing every failure is recorded as 42P01: the code returns []
\* for all of them alike.
ReadOutcomes == IF tableExists THEN Outcomes ELSE {"42P01"}

\* Both failures end in the catch block of getAppliedMigrations.
ReadSeen(o) == IF o = "throw" THEN "err" ELSE o

getAppliedMigrations(o) == IF o = "ok" THEN OrderByAppliedAt(ledger) ELSE <<>>

getPendingMigrations(o) ==
    LET appliedNames == Names(Range(getAppliedMigrations(o)))
    IN  SelectNotIn(getMigrations, appliedNames)

\* A process that has not started.
NoPeer == [pc |-> "idle", plan |-> <<>>, idx |-> 0, tx |-> "none", ins |-> {}, sch |-> {},
           res |-> "-", ret |-> "none"]

\* The processes that run `up` at the same time.
Instances == {"A", "B"}

\* An empty database, no command running.
Fresh ==
    /\ rejects \in BOOLEAN
    /\ time = 1
    /\ peers = [i \in Instances |-> NoPeer]
    /\ bodyLog = <<>>
    /\ ledger = {}
    /\ schema = {}
    /\ tx = "none"
    /\ txLedger = {}
    /\ txSchema = {}
    /\ now = 1
    /\ pc = "idle"
    /\ op = "none"
    /\ arg = 0
    /\ plan = <<>>
    /\ idx = 0
    /\ cur = NoCur
    /\ stmtFailed = FALSE
    /\ snap = NoSnap
    /\ start = NoSnap
    /\ reads = <<>>
    /\ ret = "none"
    /\ report = NoReport
    /\ created = NoCreated
    /\ prev = "other"

\* Before `init`, with an empty migrations directory.
Init ==
    /\ dir = {}
    /\ dirExists = TRUE
    /\ tableExists = FALSE
    /\ Fresh

\* The wall clock passes to the next second between two commands.
Tick ==
    /\ pc = "idle"
    /\ time < MaxTime
    /\ time' = time + 1
    /\ UNCHANGED <<rejects, dir, dirExists, peers, bodyLog, dbVars, runVars>>

Begin(command, a) ==
    /\ pc = "idle"
    /\ op' = command
    /\ arg' = a
    /\ start' = [ledger |-> ledger, schema |-> schema]
    /\ UNCHANGED <<stmtFailed, prev>>

\* init(): CREATE TABLE IF NOT EXISTS schema_migrations ...
init ==
    /\ Begin("init", 0)
    /\ \E o \in Outcomes :
         /\ tableExists' = (tableExists \/ o = "ok")
         /\ ret' = IF o = "ok" THEN "true" ELSE "threw"
    /\ pc' = "done"
    /\ UNCHANGED <<envVars, ledger, schema, tx, txLedger, txSchema, now,
                   plan, idx, cur, snap, reads, report, created>>

\* create(name)
create ==
    /\ Cardinality(dir) < MaxFiles
    /\ \E name \in {"", "a", "b"} :
         /\ Begin("create", name)
         /\ IF name = "" \/ ~dirExists
            THEN /\ ret' = "threw"
                 /\ UNCHANGED <<dir, created>>
            ELSE LET filename == File(Timestamp(time), name)
                 IN  /\ created' = [filename |-> filename, existed |-> filename \in dir]
                     /\ dir' = dir \cup {filename}
                     /\ ret' = "true"
    /\ pc' = "done"
    /\ UNCHANGED <<rejects, dirExists, time, peers, bodyLog, dbVars, plan, idx, cur, snap, reads, report>>

\* getMigrations(): throw new Error(...) when the directory does not exist;
\* the error leaves the method that called it and reaches main's catch block.
NoDirectory ==
    /\ ret' = "threw"
    /\ pc' = "done"
    /\ plan' = <<>>
    /\ idx' = 0
    /\ snap' = NoSnap
    /\ UNCHANGED reads

\* runPending() with a missing directory taken for an empty one
runPendingUnguarded(a) ==
    /\ Begin("up", a)
    /\ \E o \in ReadOutcomes :
         /\ reads' = Append(reads, ReadSeen(o))
         /\ plan' = getPendingMigrations(o)
    /\ now + Len(plan') <= MaxClock + 1
    /\ IF plan' = <<>>
       THEN /\ ret' = "true"
            /\ pc' = "done"
            /\ idx' = 0
       ELSE /\ ret' = "none"
            /\ pc' = "ap_begin"
            /\ idx' = 1
    /\ snap' = IF plan' = <<>> THEN NoSnap ELSE [ledger |-> ledger, schema |-> schema]
    /\ UNCHANGED <<envVars, dbVars, cur, report, created>>

\* runPending() honouring the steps argument: at most `steps` migrations
StepsOf(a) == CASE a = "0" -> 0 [] a = "2" -> 2 [] OTHER -> 1
runPendingLimited(a) ==
    /\ Begin("up", a)
    /\ IF ~dirExists
       THEN NoDirectory
       ELSE /\ \E o \in ReadOutcomes :
                 /\ reads' = Append(reads, ReadSeen(o))
                 /\ plan' = LET pendingMigrations == getPendingMigrations(o)
                            IN  SubSeq(pendingMigrations, 1,
                                       Min(StepsOf(a), Len(pendingMigrations)))
            /\ now + Len(plan') <= MaxClock + 1
            /\ IF plan' = <<>>
               THEN /\ ret' = "true"
                    /\ pc' = "done"
                    /\ idx' = 0
               ELSE /\ ret' = "none"
                    /\ pc' = "ap_begin"
                    /\ idx' = 1
            /\ snap' = IF plan' = <<>> THEN NoSnap ELSE [ledger |-> ledger, schema |-> schema]
    /\ UNCHANGED <<envVars, dbVars, cur, report, created>>

\* runPending(), to the end of getPendingMigrations(); a is what the command
\* line gave as [steps], which runPending() does not receive
runPendingWith(a) ==
    /\ Begin("up", a)
    /\ IF ~dirExists
       THEN NoDirectory
       ELSE /\ \E o \in ReadOutcomes :
                 /\ reads' = Append(reads, ReadSeen(o))
                 /\ plan' = getPendingMigrations(o)
            /\ now + Len(plan') <= MaxClock + 1
            /\ IF plan' = <<>>
               THEN /\ ret' = "true"
                    /\ pc' = "done"
                    /\ idx' = 0
               ELSE /\ ret' = "none"
                    /\ pc' = "ap_begin"
                    /\ idx' = 1
            /\ snap' = IF plan' = <<>> THEN NoSnap ELSE [ledger |-> ledger, schema |-> schema]
    /\ UNCHANGED <<envVars, dbVars, cur, report, created>>

\* `migrate up`
runPending == runPendingWith(0)

\* main(), case 'up': `migrate up [steps]` with steps absent, 0, 1 or 2;
\* steps is parsed and runPending() is called without it
UpArgs == {"absent", "0", "1", "2"}
up == \E a \in UpArgs : runPendingWith(a)

\* applyMigration(): BEGIN
ApBegin ==
    /\ pc = "ap_begin"
    /\ \E o \in Outcomes :
         /\ stmtFailed' = (stmtFailed \/ Failed(o))
         /\ ExecBegin(o)
         /\ cur' = [cur EXCEPT !.begin = Seen(o)]
         /\ pc' = IF o = "throw" THEN "ap_rollback" ELSE "ap_body"
    /\ UNCHANGED <<envVars, op, arg, plan, idx, snap, start, reads, ret, report, created, prev>>

\* applyMigration() without `if (error) throw error` after the migration's SQL
ApBodyUnchecked ==
    /\ pc = "ap_body"
    /\ \E o \in Outcomes :
         /\ stmtFailed' = (stmtFailed \/ Failed(o))
         /\ ExecBody(plan[idx], o)
         /\ cur' = [cur EXCEPT !.body = Seen(o)]
         /\ pc' = IF o = "throw" THEN "ap_rollback" ELSE "ap_insert"
    /\ UNCHANGED <<envVars, op, arg, plan, idx, snap, start, reads, ret, report, created, prev>>

\* applyMigration(): the migration's SQL; its error is the one the code looks at
ApBody ==
    /\ pc = "ap_body"
    /\ \E o \in Outcomes :
         /\ stmtFailed' = (stmtFailed \/ Failed(o))
         /\ ExecBody(plan[idx], o)
         /\ cur' = [cur EXCEPT !.body = Seen(o)]
         /\ pc' = IF Failed(o) THEN "ap_rollback" ELSE "ap_insert"
    /\ UNCHANGED <<envVars, op, arg, plan, idx, snap, start, reads, ret, report, created, prev>>

\* applyMigration(): the ledger INSERT; the result object is dropped
ApInsert ==
    /\ pc = "ap_insert"
    /\ \E o \in Outcomes :
         /\ stmtFailed' = (stmtFailed \/ Failed(o))
         /\ ExecInsert(plan[idx], o)
         /\ cur' = [cur EXCEPT !.insert = Seen(o)]
         /\ pc' = IF o = "throw" THEN "ap_rollback" ELSE "ap_commit"
    /\ UNCHANGED <<envVars, op, arg, plan, idx, snap, start, reads, ret, report, created, prev>>

\* applyMigration(): COMMIT; the result object is dropped
ApCommit ==
    /\ pc = "ap_commit"
    /\ \E o \in Outcomes :
         /\ stmtFailed' = (stmtFailed \/ Failed(o))
         /\ ExecCommit(o)
         /\ cur' = [cur EXCEPT !.res = IF o = "throw" THEN "-" ELSE "true"]
         /\ pc' = IF o = "throw" THEN "ap_rollback" ELSE "ap_ret"
    /\ UNCHANGED <<envVars, op, arg, plan, idx, snap, start, reads, ret, report, created, prev>>

\* applyMigration(): the catch block's ROLLBACK
ApRollback ==
    /\ pc = "ap_rollback"
    /\ \E o \in Outcomes :
         /\ stmtFailed' = (stmtFailed \/ Failed(o))
         /\ ExecRollback(o)
         /\ cur' = [cur EXCEPT !.res = IF o = "throw" THEN "threw" ELSE "false"]
    /\ pc' = "ap_ret"
    /\ UNCHANGED <<envVars, op, arg, plan, idx, snap, start, reads, ret, report, created, prev>>

\* runPending(): the for-loop over pendingMigrations
ApReturn ==
    /\ pc = "ap_ret"
    /\ IF cur.res = "true" /\ idx < Len(plan)
       THEN /\ idx' = idx + 1
            /\ pc' = "ap_begin"
            /\ cur' = NoCur
            /\ snap' = [ledger |-> ledger, schema |-> schema]
            /\ UNCHANGED ret
       ELSE /\ ret' = cur.res
            /\ pc' = "done"
            /\ cur' = NoCur
            /\ snap' = NoSnap
            /\ UNCHANGED idx
    /\ UNCHANGED <<envVars, dbVars, op, arg, plan, stmtFailed, start, reads, report, created, prev>>

\* rollback(steps), to the computation of migrationsToRollback; a is the
\* steps argument and begin the integer slice() makes of -steps
rollbackWith(a, begin) ==
    /\ Begin("down", a)
    /\ \E o \in ReadOutcomes :
         /\ reads' = Append(reads, ReadSeen(o))
         /\ plan' = LET appliedMigrations == getAppliedMigrations(o)
                    IN  IF Len(appliedMigrations) = 0 THEN <<>>
                        ELSE Reverse(Slice(appliedMigrations, begin))
    /\ IF plan' = <<>>
       THEN /\ ret' = "true"
            /\ pc' = "done"
            /\ idx' = 0
       ELSE /\ ret' = "none"
            /\ pc' = "rb_begin"
            /\ idx' = 1
    /\ snap' = IF plan' = <<>> THEN NoSnap ELSE [ledger |-> ledger, schema |-> schema]
    /\ UNCHANGED <<envVars, dbVars, cur, report, created>>

\* `migrate down <steps>` with steps a positive number
rollback == \E steps \in 1..MaxSteps : rollbackWith(steps, 0 - steps)

\* main(), case 'down': `migrate down [steps]` with steps absent, "0", "-1" or
\* not a number ("x"): rollbackSteps = args[1] ? parseInt(args[1]) : 1, and
\* slice(-rollbackSteps) converts -0 and NaN to 0.
DownArgs == {"absent", "0", "-1", "x"}
SliceBegin(a) == CASE a = "absent" -> -1 [] a = "-1" -> 1 [] OTHER -> 0
down == \E a \in DownArgs : rollbackWith(a, SliceBegin(a))

\* rollback(): BEGIN
RbBegin ==
    /\ pc = "rb_begin"
    /\ \E o \in Outcomes :
         /\ stmtFailed' = (stmtFailed \/ Failed(o))
         /\ ExecBegin(o)
         /\ cur' = [cur EXCEPT !.begin = Seen(o)]
         /\ pc' = IF o = "throw" THEN "rb_rollback" ELSE "rb_delete"
    /\ UNCHANGED <<envVars, op, arg, plan, idx, snap, start, reads, ret, report, created, prev>>

\* rollback(): the ledger DELETE; the result object is dropped
RbDelete ==
    /\ pc = "rb_delete"
    /\ \E o \in Outcomes :
         /\ stmtFailed' = (stmtFailed \/ Failed(o))
         /\ ExecDelete(plan[idx].name, o)
         /\ cur' = [cur EXCEPT !.body = Seen(o)]
         /\ pc' = IF o = "throw" THEN "rb_rollback" ELSE "rb_commit"
    /\ UNCHANGED <<envVars, op, arg, plan, idx, snap, start, reads, ret, report, created, prev>>

\* rollback(): COMMIT; the result object is dropped
RbCommit ==
    /\ pc = "rb_commit"
    /\ \E o \in Outcomes :
         /\ stmtFailed' = (stmtFailed \/ Failed(o))
         /\ ExecCommit(o)
         /\ cur' = [cur EXCEPT !.res = IF o = "throw" THEN "-" ELSE "true"]
         /\ pc' = IF o = "throw" THEN "rb_rollback" ELSE "rb_ret"
    /\ UNCHANGED <<envVars, op, arg, plan, idx, snap, start, reads, ret, report, created, prev>>

\* rollback(): the catch block's ROLLBACK
RbRollback ==
    /\ pc = "rb_rollback"
    /\ \E o \in Outcomes :
         /\ stmtFailed' = (stmtFailed \/ Failed(o))
         /\ ExecRollback(o)
         /\ cur' = [cur EXCEPT !.res = IF o = "throw" THEN "threw" ELSE "false"]
    /\ pc' = "rb_ret"
    /\ UNCHANGED <<envVars, op, arg, plan, idx, snap, start, reads, ret, report, created, prev>>

\* rollback(): the for-loop over migrationsToRollback
RbReturn ==
    /\ pc = "rb_ret"
    /\ IF cur.res = "true" /\ idx < Len(plan)
       THEN /\ idx' = idx + 1
            /\ pc' = "rb_begin"
            /\ cur' = NoCur
            /\ snap' = [ledger |-> ledger, schema |-> schema]
            /\ UNCHANGED ret
       ELSE /\ ret' = cur.res
            /\ pc' = "done"
            /\ cur' = NoCur
            /\ snap' = NoSnap
            /\ UNCHANGED idx
    /\ UNCHANGED <<envVars, dbVars, op, arg, plan, stmtFailed, start, reads, report, created, prev>>

\* ((applied / total) * 100).toFixed(1), in tenths of a percent; 0/0 is NaN and
\* k/0 is Infinity.
Percent(applied, total) ==
    IF total = 0 THEN (IF applied = 0 THEN "NaN" ELSE "Infinity")
    ELSE (applied * 2000 + total) \div (2 * total)

\* status(), to the end of the first getAppliedMigrations()
status ==
    /\ Begin("status", 0)
    /\ IF ~dirExists
       THEN NoDirectory
       ELSE /\ \E o \in ReadOutcomes :
                 /\ reads' = Append(reads, ReadSeen(o))
                 /\ plan' = getAppliedMigrations(o)
            /\ pc' = "st_pending"
            /\ UNCHANGED <<idx, snap, ret>>
    /\ UNCHANGED <<envVars, dbVars, cur, report, created>>

\* status(): getPendingMigrations() and the printed table and statistics
StatusReport ==
    /\ pc = "st_pending"
    /\ \E o \in ReadOutcomes :
         /\ reads' = Append(reads, ReadSeen(o))
         /\ LET allMigrations == getMigrations
                appliedMigrations == plan
                pendingMigrations == getPendingMigrations(o)
                appliedNames == Names(Range(appliedMigrations))
            IN  report' =
                  [total   |-> Len(allMigrations),
                   applied |-> Len(appliedMigrations),
                   pending |-> Len(pendingMigrations),
                   percent |-> Percent(Len(appliedMigrations), Len(allMigrations)),
                   rows    |-> [i \in 1..Len(allMigrations) |->
                                  [name |-> allMigrations[i].name,
                                   isApplied |-> allMigrations[i].name \in appliedNames]]]
    /\ ret' = "true"
    /\ pc' = "done"
    /\ UNCHANGED <<envVars, dbVars, op, arg, plan, idx, cur, stmtFailed, snap, start, created, prev>>

\* a `fresh` that does what its warning announces: every record and every
\* schema change is dropped without any confirmation
freshWipes ==
    /\ Begin("fresh", 0)
    /\ ret' = "true"
    /\ pc' = "done"
    /\ ledger' = {}
    /\ schema' = {}
    /\ UNCHANGED <<envVars, tableExists, tx, txLedger, txSchema, now>>
    /\ UNCHANGED <<plan, idx, cur, snap, reads, report, created>>

\* main(), case 'fresh': two warnings are printed, nothing else is done
fresh ==
    /\ Begin("fresh", 0)
    /\ ret' = "true"
    /\ pc' = "done"
    /\ UNCHANGED <<envVars, dbVars, plan, idx, cur, snap, reads, report, created>>

\* main(), default: an unrecognised command is reported on stderr
unknown ==
    /\ Begin("unknown", 0)
    /\ ret' = "unknown"
    /\ pc' = "done"
    /\ UNCHANGED <<envVars, dbVars, plan, idx, cur, snap, reads, report, created>>

\* main(): process.exit(1) in the catch block, otherwise the process ends
\* with exit code 0 when main() returns.
ExitCode == IF ret = "threw" THEN 1 ELSE 0

\* main(): the command is over and the process exits
Exit ==
    /\ pc = "done"
    /\ pc' = "idle"
    /\ prev' = IF op = "up" /\ ret = "true" THEN "up_ok" ELSE "other"
    /\ op' = "none"
    /\ arg' = 0
    /\ plan' = <<>>
    /\ idx' = 0
    /\ cur' = NoCur
    /\ stmtFailed' = FALSE
    /\ snap' = NoSnap
    /\ start' = NoSnap
    /\ reads' = <<>>
    /\ ret' = "none"
    /\ report' = NoReport
    /\ created' = NoCreated
    /\ UNCHANGED <<envVars, dbVars>>

Next ==
    \/ Tick
    \/ init
    \/ create
    \/ runPending
    \/ ApBegin
    \/ ApBody
    \/ ApInsert
    \/ ApCommit
    \/ ApRollback
    \/ ApReturn
    \/ rollback
    \/ RbBegin
    \/ RbDelete
    \/ RbCommit
    \/ RbRollback
    \/ RbReturn
    \/ status
    \/ StatusReport
    \/ fresh
    \/ unknown
    \/ Exit

Spec == Init /\ [][Next]_vars

\* The commands other than down: init, create, up and status.
NextNoDown ==
    \/ Tick
    \/ init
    \/ create
    \/ runPending
    \/ ApBegin
    \/ ApBody
    \/ ApInsert
    \/ ApCommit
    \/ ApRollback
    \/ ApReturn
    \/ status
    \/ StatusReport
    \/ fresh
    \/ unknown
    \/ Exit

SpecNoDown == Init /\ [][NextNoDown]_vars

\* ------------------------------------------- a directory filled by hand
\* supabase/migrations is an ordinary directory: besides the files create()
\* writes it can hold files an operator put there, whatever their names.
\* 9_a.sql, 10_a.sql, 10_b.sql, _a.sql (no numeric prefix) and 01_a.txt:
Other(p, s) == [prefix |-> p, slug |-> s, ext |-> "txt"]

HandMade == {File(<<9>>, "a"), File(<<1, 0>>, "a"), File(<<1, 0>>, "b"),
             File(<<>>, "a"), Other(<<0, 1>>, "a")}

\* `init` has run, the directory holds up to MaxFiles of these files, none
\* is applied.
InitFiles ==
    /\ dir \in {S \in SUBSET HandMade : Cardinality(S) \in 1..MaxFiles}
    /\ dirExists = TRUE
    /\ tableExists = TRUE
    /\ Fresh

\* The operator removes supabase/migrations between two commands.
RemoveDirectory ==
    /\ pc = "idle"
    /\ dirExists
    /\ dirExists' = FALSE
    /\ dir' = {}
    /\ UNCHANGED <<rejects, time, peers, bodyLog, dbVars, runVars>>

NextFiles ==
    \/ RemoveDirectory
    \/ runPending
    \/ ApBegin
    \/ ApBody
    \/ ApInsert
    \/ ApCommit
    \/ ApRollback
    \/ ApReturn
    \/ status
    \/ StatusReport
    \/ Exit

SpecFiles == InitFiles /\ [][NextFiles]_vars

\* ------------------------------------------------- two concurrent `up` runs
\* Two processes run `migrate up` against the same database and the same
\* directory.  Each has its own client and its own session: a session sees the
\* committed rows and what it wrote itself (READ COMMITTED); its transaction
\* holds the rows it inserted (ins) and the schema changes it made (sch) until
\* COMMIT.  An INSERT of a name another session has inserted and not yet
\* committed waits for that session (UNIQUE name, line 290).

\* `init` has run, the directory holds one or two migrations, none is applied.
InitConcurrent ==
    /\ dir \in {{File(Timestamp(1), "a")},
                {File(Timestamp(1), "a"), File(Timestamp(2), "b")}}
    /\ dirExists = TRUE
    /\ tableExists = TRUE
    /\ Fresh

PeerVisLedger(i) == ledger \cup peers[i].ins

PeerAbort(t) == IF t = "open" THEN "aborted" ELSE t

\* runPending(), to the end of getPendingMigrations()
PeerRunPending(i) ==
    /\ peers[i].pc = "idle"
    /\ \E o \in ReadOutcomes :
         LET pendingMigrations == getPendingMigrations(o)
         IN  peers' = [peers EXCEPT
                 ![i].plan = pendingMigrations,
                 ![i].idx = IF pendingMigrations = <<>> THEN 0 ELSE 1,
                 ![i].ret = IF pendingMigrations = <<>> THEN "true" ELSE "none",
                 ![i].pc = IF pendingMigrations = <<>> THEN "done" ELSE "ap_begin"]
    /\ UNCHANGED <<rejects, dir, dirExists, time, bodyLog, dbVars, runVars>>

\* applyMigration(): BEGIN
PeerApBegin(i) ==
    /\ peers[i].pc = "ap_begin"
    /\ \E o \in Outcomes :
         peers' = [peers EXCEPT
             ![i].tx = IF o = "ok" /\ @ = "none" THEN "open" ELSE @,
             ![i].pc = IF o = "throw" THEN "ap_rollback" ELSE "ap_body"]
    /\ UNCHANGED <<rejects, dir, dirExists, time, bodyLog, dbVars, runVars>>

\* applyMigration(): the migration's SQL and `if (error) throw error`
PeerApBody(i) ==
    /\ peers[i].pc = "ap_body"
    /\ LET p == peers[i]
           m == p.plan[p.idx]
       IN  \E o \in Outcomes :
             IF o = "ok"
             THEN /\ p.tx # "aborted"
                  /\ bodyLog' = Append(bodyLog, m.name)
                  /\ IF p.tx = "open"
                     THEN /\ peers' = [peers EXCEPT ![i].sch = @ \cup {m.name},
                                                    ![i].pc = "ap_insert"]
                          /\ UNCHANGED schema
                     ELSE /\ peers' = [peers EXCEPT ![i].pc = "ap_insert"]
                          /\ schema' = schema \cup {m.name}
             ELSE /\ peers' = [peers EXCEPT ![i].tx = PeerAbort(@),
                                            ![i].pc = "ap_rollback"]
                  /\ UNCHANGED <<schema, bodyLog>>
    /\ UNCHANGED <<rejects, dir, dirExists, time, tableExists, ledger, tx, txLedger, txSchema, now, runVars>>

\* applyMigration(): the ledger INSERT; the result object is dropped
PeerApInsert(i) ==
    /\ peers[i].pc = "ap_insert"
    /\ LET p == peers[i]
           m == p.plan[p.idx]
           row == [name |-> m.name, filename |-> m.filename, applied_at |-> now]
       IN  \E o \in Outcomes :
             IF o = "ok"
             THEN /\ tableExists
                  /\ p.tx # "aborted"
                  /\ m.name \notin Names(PeerVisLedger(i))
                  /\ \A j \in Instances \ {i} : m.name \notin Names(peers[j].ins)
                  /\ now' = now + 1
                  /\ IF p.tx = "open"
                     THEN /\ peers' = [peers EXCEPT ![i].ins = @ \cup {row},
                                                    ![i].pc = "ap_commit"]
                          /\ UNCHANGED ledger
                     ELSE /\ peers' = [peers EXCEPT ![i].pc = "ap_commit"]
                          /\ ledger' = ledger \cup {row}
             ELSE /\ peers' = [peers EXCEPT
                         ![i].tx = PeerAbort(@),
                         ![i].pc = IF o = "throw" THEN "ap_rollback" ELSE "ap_commit"]
                  /\ UNCHANGED <<ledger, now>>
    /\ UNCHANGED <<rejects, dir, dirExists, time, bodyLog, tableExists, schema, tx, txLedger, txSchema, runVars>>

\* applyMigration(): COMMIT; return true
PeerApCommit(i) ==
    /\ peers[i].pc = "ap_commit"
    /\ LET p == peers[i]
       IN  \E o \in Outcomes :
             /\ IF o = "ok" /\ p.tx = "open"
                THEN /\ ledger' = ledger \cup p.ins
                     /\ schema' = schema \cup p.sch
                ELSE UNCHANGED <<ledger, schema>>
             /\ peers' = [peers EXCEPT
                    ![i].tx = "none", ![i].ins = {}, ![i].sch = {},
                    ![i].res = IF o = "throw" THEN "-" ELSE "true",
                    ![i].pc = IF o = "throw" THEN "ap_rollback" ELSE "ap_ret"]
    /\ UNCHANGED <<rejects, dir, dirExists, time, bodyLog, tableExists, tx, txLedger, txSchema, now, runVars>>

\* applyMigration(): the catch block's ROLLBACK; return false
PeerApRollback(i) ==
    /\ peers[i].pc = "ap_rollback"
    /\ \E o \in Outcomes :
         peers' = [peers EXCEPT
             ![i].tx = "none", ![i].ins = {}, ![i].sch = {},
             ![i].res = IF o = "throw" THEN "threw" ELSE "false",
             ![i].pc = "ap_ret"]
    /\ UNCHANGED <<rejects, dir, dirExists, time, bodyLog, dbVars, runVars>>

\* runPending(): the for-loop over pendingMigrations
PeerApReturn(i) ==
    /\ peers[i].pc = "ap_ret"
    /\ LET p == peers[i]
       IN  IF p.res = "true" /\ p.idx < Len(p.plan)
           THEN peers' = [peers EXCEPT ![i].idx = @ + 1, ![i].res = "-",
                                       ![i].pc = "ap_begin"]
           ELSE peers' = [peers EXCEPT ![i].ret = p.res, ![i].res = "-",
                                       ![i].pc = "done"]
    /\ UNCHANGED <<rejects, dir, dirExists, time, bodyLog, dbVars, runVars>>

NextConcurrent ==
    \E i \in Instances :
        \/ PeerRunPending(i)
        \/ PeerApBegin(i)
        \/ PeerApBody(i)
        \/ PeerApInsert(i)
        \/ PeerApCommit(i)
        \/ PeerApRollback(i)
        \/ PeerApReturn(i)

SpecConcurrent == InitConcurrent /\ [][NextConcurrent]_vars

\* ------------------------------------------- the command line, interrupted
\* `up` and `down` with every form of their [steps] argument, and the
\* process interrupted (SIGINT, for which the script installs no handler),
\* starting where the concurrent runs start.  An interrupted process
\* ends at once, its connection closes and the database rolls back the
\* transaction the session had open.
Cancel ==
    /\ pc \notin {"idle", "done"}
    /\ pc' = "idle"
    /\ prev' = "other"
    /\ op' = "none"
    /\ arg' = 0
    /\ plan' = <<>>
    /\ idx' = 0
    /\ cur' = NoCur
    /\ stmtFailed' = FALSE
    /\ snap' = NoSnap
    /\ start' = NoSnap
    /\ reads' = <<>>
    /\ ret' = "none"
    /\ report' = NoReport
    /\ created' = NoCreated
    /\ EndTx
    /\ UNCHANGED <<envVars, tableExists, ledger, schema, now>>

NextCli ==
    \/ up
    \/ ApBegin
    \/ ApBody
    \/ ApInsert
    \/ ApCommit
    \/ ApRollback
    \/ ApReturn
    \/ down
    \/ RbBegin
    \/ RbDelete
    \/ RbCommit
    \/ RbRollback
    \/ RbReturn
    \/ Exit
    \/ Cancel

SpecCli == InitConcurrent /\ [][NextCli]_vars

\* ---------------------------------------------------------------- claims
Catalog == getMigrations
ReadFailed == \E i \in 1..Len(reads) : reads[i] = "err"
CatalogNames == LET allMigrations == Catalog
                IN  {allMigrations[i].name : i \in 1..Len(allMigrations)}
Version(row) == ParseInt(row.filename.prefix)
Failure == {"false", "threw"}

\* The client as createClient builds it: a failed rpc call resolves with { error }.
AsShipped == ~rejects

\* C1: as long as no down has run, a migration's schema change is committed
\* exactly when the ledger holds a record with its name, in every state, whichever
\* statement of an apply failed.  (Stated for the client as shipped.)
C1_SchemaIffLedgered == AsShipped => schema = Names(ledger)

\* C2: when the migration's SQL body reports an error, applyMigration has issued
\* ROLLBACK and reports failure, no transaction is left open, and the apply has
\* left no trace: the committed ledger and the committed schema are what they were
\* when the apply began, so it wrote no ledger record and no schema change.
C2_FailedBodyLeavesNothing ==
    (pc = "ap_ret" /\ cur.body = "failed") =>
        /\ cur.res \in Failure
        /\ tx = "none"
        /\ ledger = snap.ledger
        /\ schema = snap.schema
        /\ (plan[idx].name \notin Names(snap.ledger) => plan[idx].name \notin Names(ledger))
        /\ (plan[idx].name \notin snap.schema => plan[idx].name \notin schema)

\* C2's case: a body that failed inside an open transaction, after an earlier
\* migration of the same run was committed, and the apply returned false.
C2_Witness ==
    /\ pc = "ap_ret"
    /\ cur.begin = "ok"
    /\ cur.body = "failed"
    /\ cur.res = "false"
    /\ idx = 2
    /\ ledger # {}

\* C3: when an up() run ends because the apply of plan[idx] failed, every
\* migration planned before it is committed and ledgered, plan[idx] is not
\* ledgered, and the run reports failure (the loop has not gone past idx).
\* (Stated for the client as shipped.)
C3_FailFast ==
    (AsShipped /\ pc = "done" /\ op = "up" /\ ret \in Failure) =>
        /\ \A j \in 1..(idx - 1) :
             plan[j].name \in Names(ledger) /\ plan[j].name \in schema
        /\ plan[idx].name \notin Names(ledger)

\* C4: an up() that directly follows an up() which reported success, with the
\* directory unchanged, executes no migration body and adds no ledger record.
\* (Stated for the client as shipped.)
C4_SecondUpIdle ==
    (AsShipped /\ op = "up" /\ prev = "up_ok") =>
        /\ cur.body = "-"
        /\ ledger = start.ledger

\* The min(n, m) rows of the greatest applied_at.
Newest(rows, n) ==
    {r \in rows : Cardinality({q \in rows : q.applied_at > r.applied_at}) < n}

\* C5: a down(n), n >= 1, none of whose reverts failed, has removed exactly the
\* min(n, m) ledger records of the greatest applied_at, has reverted them in
\* descending applied_at order, and has left every other record as it was.
\* (Stated for the client as shipped.)
C5_DownScope ==
    (AsShipped /\ pc = "done" /\ op = "down" /\ ~stmtFailed) =>
        /\ ledger = start.ledger \ Newest(start.ledger, arg)
        /\ Range(plan) = Newest(start.ledger, arg)
        /\ \A i, j \in 1..Len(plan) : i < j => plan[i].applied_at > plan[j].applied_at

\* C6: with a catalog of n migrations of which k are ledgered, status() reports
\* n in total, k applied, n - k pending and k/n as the percentage, and marks each
\* migration, in catalog order, applied exactly when the ledger holds its name.
\* (Stated for the client as shipped.)
C6_StatusAccurate ==
    (AsShipped /\ pc = "done" /\ op = "status") =>
        LET n == Len(Catalog)
            k == Cardinality(CatalogNames \cap Names(ledger))
        IN  /\ report.total = n
            /\ report.applied = k
            /\ report.pending = n - k
            /\ (n > 0 => report.percent = Percent(k, n))
            /\ Len(report.rows) = n
            /\ \A i \in 1..n :
                 /\ report.rows[i].name = Catalog[i].name
                 /\ report.rows[i].isApplied = (Catalog[i].name \in Names(ledger))

\* C7: a create() never writes a filename that is already in the directory, so
\* two create() calls in the same second produce two distinct files.
C7_CreateNeverOverwrites ==
    (pc = "done" /\ op = "create" /\ ret = "true") => ~created.existed

\* C8: for two ledgered migrations with distinct version prefixes, the one with
\* the lower version has the earlier or equal applied_at.  (Stated for the client
\* as shipped.)
C8_AppliedAtFollowsVersion ==
    AsShipped =>
        \A a, b \in ledger : Version(a) < Version(b) => a.applied_at <= b.applied_at

\* C9: when the ledger read of an up() run fails for another reason than the
\* missing table, no migration body is executed and the run reports failure.
\* (Stated for the client as shipped and a catalog that is not empty.)
C9_ReadFailureAborts ==
    (AsShipped /\ op = "up" /\ ReadFailed /\ Catalog # <<>>) =>
        /\ cur.body = "-"
        /\ (pc = "done" => ret \in Failure)

\* C10: when the ledger INSERT of an apply fails, the apply reports failure and
\* the migration's schema change is not committed by it.  (Stated for the client
\* as shipped.)
C10_InsertFailureFailsApply ==
    (AsShipped /\ pc = "ap_ret" /\ cur.insert = "failed") =>
        /\ cur.res \in Failure
        /\ schema = snap.schema

\* C11: when two processes run `up` at the same time against the same
\* database and directory, Planning through Applying is mutually exclusive
\* (while one process is between its ledger read and the end of its run the
\* other is not), and so the SQL of each migration is executed at most once.
PeerBusy(i) == peers[i].pc \notin {"idle", "done"}
AtMostOnce(log) == \A i, j \in 1..Len(log) : i # j => log[i] # log[j]
C11_UpMutuallyExclusive ==
    AsShipped =>
        /\ AtMostOnce(bodyLog)
        /\ \A i, j \in Instances : i # j => ~(PeerBusy(i) /\ PeerBusy(j))

\* C12: when a command is over, the process exit code is 0 if and only if
\* the operation succeeded; an `up` or `down` that returned false and an
\* unrecognised command exit non-zero.
C12_ExitCodeReflectsResult ==
    (AsShipped /\ pc = "done") => ((ExitCode = 0) <=> (ret = "true"))

\* C13: the pending sequence computed in Planning (the plan of a running
\* `up`) holds exactly the catalog migrations whose name has no ledger record
\* when the run starts, each once, in the order of the catalog.
C13_PendingIsCatalogMinusLedger ==
    (AsShipped /\ op = "up") =>
        plan = SelectNotIn(Catalog, Names(start.ledger))

\* C14: when the ledger DELETE of a revert has failed, that revert returns a
\* failure (so that `down` stops there and returns failure), and every record
\* that was to be reverted after it, the older ones, is still in the ledger.
C14_FailedRevertStops ==
    (AsShipped /\ pc = "rb_ret" /\ cur.body = "failed") =>
        /\ cur.res \in Failure
        /\ \A j \in (idx + 1)..Len(plan) : plan[j] \in ledger

\* C15: `up` reports success if and only if every migration it planned is
\* applied and has its ledger record; after an `up` that reported success
\* nothing of the catalog is pending.
C15_UpSuccessIffAllApplied ==
    (AsShipped /\ pc = "done" /\ op = "up") =>
        /\ (ret = "true") <=> (\A j \in 1..Len(plan) : /\ plan[j].name \in Names(ledger)
                                                     /\ plan[j].name \in schema)
        /\ (ret = "true") => SelectNotIn(Catalog, Names(ledger)) = <<>>

\* C16: no step of `down` changes the migration files or the committed
\* schema, and the only ledger record a step removes is the record of the
\* migration being reverted; a revert all of whose statements succeeded has
\* removed exactly that record.
Reverting == IF idx \in 1..Len(plan) THEN {plan[idx]} ELSE {}
C16_DownChangesOnlyLedger ==
    [][op = "down" =>
         /\ dir' = dir
         /\ schema' = schema
         /\ ledger' \subseteq ledger
         /\ (ledger \ ledger') \subseteq Reverting
         /\ (pc' = "rb_ret" /\ ~stmtFailed') =>
                /\ ledger' = snap.ledger \ Reverting
                /\ schema' = snap.schema]_vars

\* a revert has removed the newest of two records; the schema of both
\* migrations and the older record are still there
C16_Witness ==
    /\ op = "down"
    /\ pc = "rb_ret"
    /\ ~stmtFailed
    /\ Cardinality(snap.ledger) = 2
    /\ Cardinality(ledger) = 1
    /\ plan[idx] \notin ledger
    /\ plan[idx].name \in schema
    /\ Cardinality(schema) = 2

\* C17: no migration carries reverse SQL and `down` takes no force-override,
\* so while `down` runs every ledger record is retained: the ledger is what
\* it was when the command began.
C17_RecordRetainedWithoutForce ==
    (AsShipped /\ op = "down" /\ ~stmtFailed) => ledger = start.ledger

\* C18: whatever files the directory holds, the catalog is ordered ascending
\* by the numeric value of the version prefix, files of equal version by
\* filename; also when the prefixes differ in their number of digits.
\* (Stated for directories all of whose .sql files have a numeric prefix.)
Numbered(f) == f.prefix # <<>>
Listed == op \in {"up", "status"}     \* the command has called getMigrations()
C18_CatalogByNumericVersion ==
    (Listed /\ \A f \in dir : Numbered(f)) =>
        \A i, j \in 1..Len(Catalog) : i < j =>
            \/ Catalog[i].timestamp < Catalog[j].timestamp
            \/ /\ Catalog[i].timestamp = Catalog[j].timestamp
               /\ LexLess(Catalog[i].filename, Catalog[j].filename)

\* C19: a file whose name has no numeric prefix is not in the catalog, is
\* not counted by status, and is never applied by up.
C19_UnnumberedFilesSkipped ==
    /\ Listed => \A i \in 1..Len(Catalog) : Numbered(Catalog[i].filename)
    /\ (pc = "done" /\ op = "status") =>
           report.total = Cardinality({f \in dir : Numbered(f) /\ f.ext = "sql"})
    /\ \A i \in 1..Len(plan) : op = "up" => Numbered(plan[i].filename)
    /\ \A name \in schema : name[1] # <<>>

\* C20: what getAppliedMigrations returns (here to status, which keeps it in
\* appliedMigrations) is in ascending applied_at order; after a successful
\* read it is the ledger's records, each once; when the table does not exist
\* (42P01) it is the empty sequence and the command goes on without an error.
C20_ListAppliedAscending ==
    (op = "status" /\ pc \in {"st_pending", "done"}) =>
        /\ \A i, j \in 1..Len(plan) : i < j => plan[i].applied_at <= plan[j].applied_at
        /\ reads[1] = "ok" => (Range(plan) = ledger /\ Len(plan) = Cardinality(ledger))
        /\ ~tableExists => (reads[1] = "42P01" /\ plan = <<>>)
        /\ (reads[1] = "42P01" /\ pc = "done") => ret = "true"

\* status has read two records applied at different times
C20_Witness ==
    /\ op = "status"
    /\ pc = "st_pending"
    /\ reads = <<"ok">>
    /\ Len(plan) = 2
    /\ plan[1].applied_at < plan[2].applied_at

\* C21: whatever [steps] is given to `up` (absent, 0, 1, 2), the sequence the
\* run works through is the whole pending sequence Planning computed from
\* its ledger read, and a run that reported success went through all of it.
C21_UpAppliesAllPending ==
    (op = "up" /\ dirExists) =>
        /\ plan = SelectNotIn(Catalog, IF reads[1] = "ok" THEN Names(start.ledger) ELSE {})
        /\ (pc = "done" /\ ret = "true") => idx = Len(plan)

\* `up 1` with two pending migrations has applied and recorded both
C21_Witness ==
    /\ op = "up"
    /\ arg = "1"
    /\ pc = "done"
    /\ ret = "true"
    /\ Len(plan) = 2
    /\ idx = 2
    /\ Names(Range(plan)) \subseteq Names(ledger)

C23_MissingDirectoryFails ==
    (~dirExists /\ op \in {"up", "status"}) =>
        /\ pc = "done"
        /\ ret = "threw"
        /\ ExitCode = 1
        /\ reads = <<>>
        /\ cur = NoCur
        /\ tx = "none"
        /\ ledger = start.ledger
        /\ schema = start.schema

\* `up` has failed on a missing directory while the ledger holds a record
C23_Witness ==
    /\ ~dirExists
    /\ op = "up"
    /\ pc = "done"
    /\ ret = "threw"
    /\ ledger # {}

\* C24: create() without a name throws and writes nothing; create(name) with a
\* name adds one file <timestamp>_<name>.sql that was not in the directory
\* before, leaves the ledger alone, and the new migration is not ledgered
\* (status reports it pending).
C24_CreateAddsOnePendingFile ==
    (AsShipped /\ pc = "done" /\ op = "create") =>
        IF arg = ""
        THEN /\ ret = "threw"
             /\ created = NoCreated
             /\ ledger = start.ledger
        ELSE /\ ret = "true"
             /\ created.filename \in dir
             /\ created.filename.slug = arg
             /\ ~created.existed
             /\ ledger = start.ledger
             /\ Name(created.filename) \notin Names(ledger)

\* C25: in every state reached by init, create, up and down the ledger holds
\* at most one record per migration name, and every ledgered name is the name
\* of a file of the catalog.
C25_LedgerWellFormed ==
    /\ \A a, b \in ledger : a.name = b.name => a = b
    /\ \A a, b \in VisLedger : a.name = b.name => a = b
    /\ LET names == CatalogNames
       IN  \A a \in ledger : a.name \in names

\* an `up` has re-run the body of a ledgered migration and its second INSERT
\* of the same name was refused
C25_Witness ==
    /\ AsShipped
    /\ pc = "ap_commit"
    /\ cur.body = "ok"
    /\ cur.insert = "failed"
    /\ plan[idx].name \in Names(ledger)
    /\ Cardinality(ledger) = 2

\* C26: a transaction begun by an apply or a revert is ended by its COMMIT or
\* ROLLBACK before the operation returns and before the next BEGIN, and the
\* process does not end (by cancellation or otherwise) while the session has
\* a transaction open.  (Stated for the client as shipped.)
C26_TransactionsResolved ==
    /\ [](pc \in {"idle", "done", "ap_begin", "rb_begin", "ap_ret", "rb_ret"} => tx = "none")
    /\ [][(AsShipped /\ tx # "none") => pc' # "idle"]_vars

\* C27: `down` given a steps argument that is 0, negative or not a number
\* removes no ledger record.  (Stated for the client as shipped and a run in
\* which no statement failed.)
C27_DownBadStepsRemovesNothing ==
    (AsShipped /\ ~stmtFailed /\ op = "down" /\ arg \in {"0", "-1", "x"}) =>
        ledger = start.ledger

\* C28: while the ledger table is missing, an apply that has executed its
\* migration body returns failure, and so does the `up` run: no success is
\* reported for a migration whose record could not be written.  (Stated for
\* the client as shipped.)
C28_MissingTableNeverSucceeds ==
    (AsShipped /\ op = "up" /\ ~tableExists) =>
        /\ (pc = "ap_ret" /\ cur.body = "ok") => cur.res \in Failure
        /\ (pc = "done" /\ plan # <<>>) => ret \in Failure

\* C29: the statistics status() prints satisfy applied + pending = total, and
\* the percentage is a number between 0 and 100 (0..1000 tenths; it is a
\* number exactly when the total it is divided by is not 0).  (Stated for the
\* client as shipped.)
C29_StatusCountsConsistent ==
    (AsShipped /\ pc = "done" /\ op = "status" /\ ret = "true") =>
        /\ report.applied + report.pending = report.total
        /\ report.total # 0
        /\ report.percent \in 0..1000

\* C30: a migration body is never executed against a database that already
\* holds that migration's schema change: whenever a body has just run
\* successfully, the schema the session saw before it did not contain the
\* change.  (Stated for the client as shipped.)
C30_BodyNeverReExecuted ==
    (AsShipped /\ op = "up" /\ pc = "ap_insert" /\ cur.body = "ok") =>
        plan[idx].name \notin snap.schema

====
